---- MODULE Spec2Model ----
(***************************************************************************)
(* The marketplace data model of schema.ts: six pgTable declarations, the  *)
(* six insert schemas derived from them with createInsertSchema(...).omit, *)
(* and the relational store that holds the declared tables.  An insert is  *)
(* a payload validated by the table's insert schema and, when it passes,   *)
(* written to the table under the declared defaults and constraints.       *)
(***************************************************************************)
EXTENDS Integers, FiniteSets, Sequences, TLC

(* ---------------------------- bounds ----------------------------------- *)
\* Inserts that may reach one table (each draws one value of its serial id).
MaxSeq == 2
\* Inserts that may reach the store over all the tables together.
MaxOps == 5

(* ---------------------------- values ----------------------------------- *)
\* A JavaScript / SQL value: a tag, a number and a text.  The number is
\* h * 2^31 + n, with |n| < 2^31 and n of the sign of h when h # 0, so that
\* numbers beyond 32 bits keep their value.
Null == [t |-> "null", h |-> 0, n |-> 0, s |-> ""]
Num(k) == [t |-> "num", h |-> 0, n |-> k, s |-> ""]
Big(h, k) == [t |-> "num", h |-> h, n |-> k, s |-> ""]
Str(x) == [t |-> "str", h |-> 0, n |-> 0, s |-> x]
Bool(b) == [t |-> "bool", h |-> 0, n |-> IF b THEN 1 ELSE 0, s |-> ""]
Ts(x) == [t |-> "ts", h |-> 0, n |-> 0, s |-> x]
Arr(x) == [t |-> "arr", h |-> 0, n |-> 0, s |-> x]
\* a <= b, of two numbers.
Leq(a, b) == a.h < b.h \/ (a.h = b.h /\ a.n <= b.n)
\* The store's clock, read by defaultNow().
Now == Ts("now")

\* What a column's DEFAULT clause may hold besides a value.
NoDefault == [t |-> "none", h |-> 0, n |-> 0, s |-> ""]
NextVal == [t |-> "nextval", h |-> 0, n |-> 0, s |-> ""]
CurrentTimestamp == [t |-> "now", h |-> 0, n |-> 0, s |-> ""]

(* ---------------------- column builders (drizzle) ---------------------- *)
Column(name, type) ==
    [name |-> name, type |-> type, notNull |-> FALSE, unique |-> FALSE,
     def |-> NoDefault, ref |-> ""]

text(name) == Column(name, "text")
integer(name) == Column(name, "integer")
real(name) == Column(name, "real")
boolean(name) == Column(name, "boolean")
timestamp(name) == Column(name, "timestamp")
\* serial: an integer, NOT NULL, DEFAULT nextval of the table's sequence.
serial(name) == [Column(name, "serial") EXCEPT !.notNull = TRUE, !.def = NextVal]

notNull(c) == [c EXCEPT !.notNull = TRUE]
unique(c) == [c EXCEPT !.unique = TRUE]
primaryKey(c) == [c EXCEPT !.notNull = TRUE, !.unique = TRUE]
default(c, v) == [c EXCEPT !.def = v]
defaultNow(c) == [c EXCEPT !.def = CurrentTimestamp]
references(c, table) == [c EXCEPT !.ref = table]
array(c) == [c EXCEPT !.type = "array"]

(* --------------------------- the six tables ---------------------------- *)
\* users with username declared without .unique().
users_usernameNotUnique ==
    { primaryKey(serial("id")),
      notNull(text("username")),
      notNull(text("password")),
      notNull(text("displayName")),
      text("bio"),
      text("avatarUrl"),
      defaultNow(timestamp("joinedAt")),
      default(boolean("isCreator"), Bool(FALSE)) }

\* users with password declared without .notNull().
users_passwordNullable ==
    { primaryKey(serial("id")),
      unique(notNull(text("username"))),
      text("password"),
      notNull(text("displayName")),
      text("bio"),
      text("avatarUrl"),
      defaultNow(timestamp("joinedAt")),
      default(boolean("isCreator"), Bool(FALSE)) }

\* users with id declared integer("id").default(0) instead of a serial primary key.
users_idNotSerial ==
    { default(integer("id"), Num(0)),
      unique(notNull(text("username"))),
      notNull(text("password")),
      notNull(text("displayName")),
      text("bio"),
      text("avatarUrl"),
      defaultNow(timestamp("joinedAt")),
      default(boolean("isCreator"), Bool(FALSE)) }

users ==
    { primaryKey(serial("id")),
      unique(notNull(text("username"))),
      notNull(text("password")),
      notNull(text("displayName")),
      text("bio"),
      text("avatarUrl"),
      defaultNow(timestamp("joinedAt")),
      default(boolean("isCreator"), Bool(FALSE)) }

\* categories with name declared without .unique().
categories_nameNotUnique ==
    { primaryKey(serial("id")),
      notNull(text("name")),
      text("description"),
      notNull(text("iconName")),
      default(integer("assetCount"), Num(0)) }

categories ==
    { primaryKey(serial("id")),
      unique(notNull(text("name"))),
      text("description"),
      notNull(text("iconName")),
      default(integer("assetCount"), Num(0)) }

assets ==
    { primaryKey(serial("id")),
      notNull(text("title")),
      text("description"),
      notNull(text("previewUrl")),
      notNull(real("price")),
      references(notNull(integer("categoryId")), "categories"),
      references(notNull(integer("creatorId")), "users"),
      defaultNow(timestamp("createdAt")),
      array(text("tags")),
      default(boolean("featured"), Bool(FALSE)),
      array(text("thumbnails")),
      default(integer("downloadCount"), Num(0)),
      default(real("rating"), Num(0)),
      text("fileUrl"),
      text("fileType"),
      integer("fileSize"),
      text("s3ObjectKey") }

\* cartItems with assetId declared without .references().
cartItems_assetUnreferenced ==
    { primaryKey(serial("id")),
      references(notNull(integer("userId")), "users"),
      notNull(integer("assetId")),
      defaultNow(timestamp("addedAt")),
      notNull(default(integer("quantity"), Num(1))) }

\* cartItems with quantity declared .default(0).
cartItems_quantityDefaultZero ==
    { primaryKey(serial("id")),
      references(notNull(integer("userId")), "users"),
      references(notNull(integer("assetId")), "assets"),
      defaultNow(timestamp("addedAt")),
      notNull(default(integer("quantity"), Num(0))) }

cartItems ==
    { primaryKey(serial("id")),
      references(notNull(integer("userId")), "users"),
      references(notNull(integer("assetId")), "assets"),
      defaultNow(timestamp("addedAt")),
      notNull(default(integer("quantity"), Num(1))) }

\* purchases with status declared .default("pending").
purchases_statusDefaultPending ==
    { primaryKey(serial("id")),
      references(notNull(integer("userId")), "users"),
      references(notNull(integer("assetId")), "assets"),
      defaultNow(timestamp("purchaseDate")),
      notNull(real("amount")),
      text("paymentIntentId"),
      default(text("status"), Str("pending")),
      default(integer("downloadCount"), Num(0)),
      timestamp("lastDownloadDate") }

purchases ==
    { primaryKey(serial("id")),
      references(notNull(integer("userId")), "users"),
      references(notNull(integer("assetId")), "assets"),
      defaultNow(timestamp("purchaseDate")),
      notNull(real("amount")),
      text("paymentIntentId"),
      default(text("status"), Str("completed")),
      default(integer("downloadCount"), Num(0)),
      timestamp("lastDownloadDate") }

\* ratings with userId declared .unique(): one rating per user.
ratings_userIdUnique ==
    { primaryKey(serial("id")),
      unique(references(notNull(integer("userId")), "users")),
      references(notNull(integer("assetId")), "assets"),
      notNull(integer("rating")),
      text("comment"),
      defaultNow(timestamp("createdAt")),
      timestamp("updatedAt") }

ratings ==
    { primaryKey(serial("id")),
      references(notNull(integer("userId")), "users"),
      references(notNull(integer("assetId")), "assets"),
      notNull(integer("rating")),
      text("comment"),
      defaultNow(timestamp("createdAt")),
      timestamp("updatedAt") }

TableNames == {"users", "categories", "assets", "cartItems", "purchases", "ratings"}

pgTable(t) ==
    CASE t = "users" -> users
      [] t = "categories" -> categories
      [] t = "assets" -> assets
      [] t = "cartItems" -> cartItems
      [] t = "purchases" -> purchases
      [] t = "ratings" -> ratings

ColumnNames(t) == {c.name : c \in pgTable(t)}

(* ------------------------ insert schemas (zod) ------------------------- *)
\* The tag of the JavaScript values a column's zod type admits.
ZodTag(type) ==
    CASE type \in {"serial", "integer", "real"} -> "num"
      [] type = "text" -> "str"
      [] type = "boolean" -> "bool"
      [] type = "timestamp" -> "ts"
      [] type = "array" -> "arr"

\* createInsertSchema: one field per column; a column that is nullable or has
\* a default is optional, a nullable column also admits null; an integer
\* column admits the 32-bit integers.
createInsertSchema(table) ==
    { [name |-> c.name,
       tag |-> ZodTag(c.type),
       optional |-> (~c.notNull) \/ (c.def # NoDefault),
       nullable |-> ~c.notNull,
       ranged |-> c.type \in {"serial", "integer"},
       min |-> Big(-1, 0),
       max |-> Num(2147483647)] : c \in table }

\* .omit(mask) that removes nothing.
omit_keepsAll(schema, mask) == schema

\* .omit(mask): the object schema without the masked keys.
omit(schema, mask) == {f \in schema : f.name \notin mask}

insertUserSchema == omit(createInsertSchema(users), {"id", "joinedAt"})
insertCategorySchema == omit(createInsertSchema(categories), {"id"})
insertAssetSchema ==
    omit(createInsertSchema(assets), {"id", "createdAt", "downloadCount", "rating"})
insertCartItemSchema == omit(createInsertSchema(cartItems), {"id", "addedAt"})
insertPurchaseSchema ==
    omit(createInsertSchema(purchases),
         {"id", "purchaseDate", "downloadCount", "lastDownloadDate"})
\* The rating schema refined to the stars 1..5.
insertRatingSchema_oneToFive ==
    { IF f.name = "rating" THEN [f EXCEPT !.min = Num(1), !.max = Num(5)] ELSE f :
        f \in omit(createInsertSchema(ratings), {"id", "createdAt", "updatedAt"}) }

insertRatingSchema ==
    omit(createInsertSchema(ratings), {"id", "createdAt", "updatedAt"})

InsertSchema(t) ==
    CASE t = "users" -> insertUserSchema
      [] t = "categories" -> insertCategorySchema
      [] t = "assets" -> insertAssetSchema
      [] t = "cartItems" -> insertCartItemSchema
      [] t = "purchases" -> insertPurchaseSchema
      [] t = "ratings" -> insertRatingSchema

\* One field of a zod object against the value given for it.
FieldAccepts(f, v) ==
    IF v.t = "null" THEN f.nullable
    ELSE /\ v.t = f.tag
         /\ f.ranged => (Leq(f.min, v) /\ Leq(v, f.max))

\* schema.safeParse(payload): every required key present, every present key of
\* the schema well typed; keys the schema does not know are stripped.
safeParse(schema, payload) ==
    [success |-> \A f \in schema :
                    IF f.name \in DOMAIN payload
                    THEN FieldAccepts(f, payload[f.name])
                    ELSE f.optional,
     data |-> [k \in (DOMAIN payload) \cap {f.name : f \in schema} |-> payload[k]]]

(* ------------------------------ the store ------------------------------ *)
VARIABLES
    rows,   \* rows[t]: the rows of table t, each a function column -> value
    seq,    \* seq[t]: the next value of the sequence behind t's serial id
    last    \* the last insert: its table, its payload and how it ended

vars == <<rows, seq, last>>

NoPayload == [k \in {} |-> Null]

ColumnOf(t, name) == CHOOSE c \in pgTable(t) : c.name = name

\* The value the store writes to a column the insert statement leaves out.
DefaultValue(t, c) ==
    CASE c.def = NextVal -> Num(seq[t])
      [] c.def = CurrentTimestamp -> Now
      [] c.def = NoDefault -> Null
      [] OTHER -> c.def

\* INSERT INTO t (keys of data) VALUES (...): the candidate row.
NewRow(t, data) ==
    [name \in ColumnNames(t) |->
        IF name \in DOMAIN data THEN data[name] ELSE DefaultValue(t, ColumnOf(t, name))]

\* The insert draws the sequence whenever a serial column is left to its default,
\* also when the row is then refused by a constraint.
DrawsSequence(t, data) ==
    \E c \in pgTable(t) : c.def = NextVal /\ c.name \notin DOMAIN data

NotNullViolation(t, row) ==
    \E c \in pgTable(t) : c.notNull /\ row[c.name] = Null

UniqueViolation(t, row) ==
    \E c \in pgTable(t) :
        /\ c.unique
        /\ row[c.name] # Null
        /\ \E r \in rows[t] : r[c.name] = row[c.name]

ForeignKeyViolation(t, row) ==
    \E c \in pgTable(t) :
        /\ c.ref # ""
        /\ row[c.name] # Null
        /\ ~ \E r \in rows[c.ref] : r.id = row[c.name]

\* How the store answers the candidate row.
Constraint(t, row) ==
    IF NotNullViolation(t, row) THEN "not_null"
    ELSE IF UniqueViolation(t, row) THEN "unique"
    ELSE IF ForeignKeyViolation(t, row) THEN "fk"
    ELSE "ok"

OpsDone == seq["users"] + seq["categories"] + seq["assets"]
           + seq["cartItems"] + seq["purchases"] + seq["ratings"] - 6

\* One insert: validate the payload with the table's insert schema, then write
\* the validated data to the table.
Insert(t, payload) ==
    /\ seq[t] <= MaxSeq
    /\ OpsDone < MaxOps
    /\ LET parsed == safeParse(InsertSchema(t), payload)
           row == NewRow(t, parsed.data)
           answer == Constraint(t, row)
       IN  IF ~parsed.success
           THEN /\ last' = [table |-> t, payload |-> payload, result |-> "invalid", id |-> 0]
                /\ UNCHANGED <<rows, seq>>
           ELSE /\ rows' = IF answer = "ok"
                           THEN [rows EXCEPT ![t] = @ \cup {row}]
                           ELSE rows
                /\ seq' = IF DrawsSequence(t, parsed.data)
                          THEN [seq EXCEPT ![t] = @ + 1]
                          ELSE seq
                /\ last' = [table |-> t, payload |-> payload, result |-> answer,
                            id |-> row.id.n]

(* ------------------------------ payloads ------------------------------- *)
With(p, k, v) == [x \in (DOMAIN p) \cup {k} |-> IF x = k THEN v ELSE p[x]]
Without(p, k) == [x \in (DOMAIN p) \ {k} |-> p[x]]

Usernames == {"alice", "bob"}
CategoryNames == {"icons", "fonts"}
\* The (first, second) foreign keys the payloads name.
Refs == {<<1, 1>>, <<2, 1>>}

UserBase(u) == [username |-> Str(u), password |-> Str("pw"), displayName |-> Str("A")]
UserPayloads ==
    {UserBase(u) : u \in Usernames}
    \cup {Without(UserBase("alice"), "password"),
          With(UserBase("alice"), "username", Num(7)),
          With(With(UserBase("alice"), "id", Num(2)), "joinedAt", Ts("client")),
          With(UserBase("alice"), "isCreator", Bool(TRUE))}

CategoryBase(n) == [name |-> Str(n), iconName |-> Str("ri-star")]
CategoryPayloads ==
    {CategoryBase(n) : n \in CategoryNames}
    \cup {With(CategoryBase("icons"), "iconName", Null),
          With(CategoryBase("icons"), "id", Num(2)),
          With(CategoryBase("icons"), "assetCount", Num(5)),
          With(CategoryBase("fonts"), "color", Num(3))}

AssetBase(u, c) ==
    [title |-> Str("pack"), previewUrl |-> Str("/p.png"), price |-> Num(10),
     categoryId |-> Num(c), creatorId |-> Num(u)]
AssetPayloads ==
    {AssetBase(x[1], x[2]) : x \in Refs}
    \cup {Without(AssetBase(1, 1), "title"),
          With(AssetBase(1, 1), "price", Str("free")),
          With(With(With(With(AssetBase(1, 1), "id", Num(2)), "createdAt", Ts("client")),
                    "downloadCount", Num(5)), "rating", Num(4)),
          With(AssetBase(1, 1), "featured", Bool(TRUE))}

CartItemBase(u, a) == [userId |-> Num(u), assetId |-> Num(a)]
CartItemPayloads ==
    {CartItemBase(x[1], x[2]) : x \in Refs}
    \cup {With(CartItemBase(1, 1), "quantity", Num(0)),
          With(CartItemBase(1, 1), "quantity", Num(-1)),
          With(CartItemBase(1, 1), "quantity", Null),
          With(CartItemBase(1, 1), "quantity", Big(1, 0)),
          With(With(CartItemBase(1, 1), "id", Num(2)), "addedAt", Str("soon")),
          Without(CartItemBase(1, 1), "userId")}

PurchaseBase(u, a) == [userId |-> Num(u), assetId |-> Num(a), amount |-> Num(10)]
PurchasePayloads ==
    {PurchaseBase(x[1], x[2]) : x \in Refs}
    \cup {Without(PurchaseBase(1, 1), "amount"),
          With(PurchaseBase(1, 1), "status", Str("pending")),
          With(With(With(With(PurchaseBase(1, 1), "id", Num(2)), "purchaseDate", Ts("client")),
                    "downloadCount", Num(5)), "lastDownloadDate", Ts("client"))}

RatingBase(u, a, k) == [userId |-> Num(u), assetId |-> Num(a), rating |-> Num(k)]
RatingPayloads ==
    {RatingBase(x[1], x[2], 3) : x \in Refs}
    \cup {RatingBase(1, 1, k) : k \in {0, 6}}
    \cup {Without(RatingBase(1, 1, 3), "rating"),
          With(RatingBase(1, 1, 3), "rating", Big(-1, -1)),
          With(RatingBase(1, 1, 3), "rating", Str("five")),
          With(With(With(RatingBase(1, 1, 3), "id", Num(2)), "createdAt", Ts("client")),
               "updatedAt", Ts("client"))}

(* ------------------------------ behaviour ------------------------------ *)
Init ==
    /\ rows = [t \in TableNames |-> {}]
    /\ seq = [t \in TableNames |-> 1]
    /\ last = [table |-> "", payload |-> NoPayload, result |-> "none", id |-> 0]

InsertUser == \E p \in UserPayloads : Insert("users", p)
InsertCategory == \E p \in CategoryPayloads : Insert("categories", p)
InsertAsset == \E p \in AssetPayloads : Insert("assets", p)
InsertCartItem == \E p \in CartItemPayloads : Insert("cartItems", p)
InsertPurchase == \E p \in PurchasePayloads : Insert("purchases", p)
InsertRating == \E p \in RatingPayloads : Insert("ratings", p)

Next ==
    \/ InsertUser
    \/ InsertCategory
    \/ InsertAsset
    \/ InsertCartItem
    \/ InsertPurchase
    \/ InsertRating

Spec == Init /\ [][Next]_vars

TypeOK ==
    /\ \A t \in TableNames : seq[t] \in 1..(MaxSeq + 1)
    /\ last.table \in TableNames \cup {""}

(* ------------------------- words of the claims ------------------------- *)
\* The keys each insert schema leaves to the server.
ServerFields(t) ==
    CASE t = "users" -> {"id", "joinedAt"}
      [] t = "categories" -> {"id"}
      [] t = "assets" -> {"id", "createdAt", "downloadCount", "rating"}
      [] t = "cartItems" -> {"id", "addedAt"}
      [] t = "purchases" -> {"id", "purchaseDate", "downloadCount", "lastDownloadDate"}
      [] t = "ratings" -> {"id", "createdAt", "updatedAt"}

\* The value the store itself gives a server field of the row it has just added.
ServerValue(t, k) ==
    CASE k = "id" -> Num(seq[t] - 1)
      [] k \in {"joinedAt", "createdAt", "addedAt", "purchaseDate"} -> Now
      [] k \in {"downloadCount", "rating"} -> Num(0)
      [] k \in {"lastDownloadDate", "updatedAt"} -> Null

\* The client-writable columns declared NOT NULL, and those among them that
\* have no default.
NotNullable(t) ==
    CASE t = "users" -> {"username", "password", "displayName"}
      [] t = "categories" -> {"name", "iconName"}
      [] t = "assets" -> {"title", "previewUrl", "price", "categoryId", "creatorId"}
      [] t = "cartItems" -> {"userId", "assetId", "quantity"}
      [] t = "purchases" -> {"userId", "assetId", "amount"}
      [] t = "ratings" -> {"userId", "assetId", "rating"}

Required(t) == NotNullable(t) \ {"quantity"}

\* The columns a client may write: those the insert schema keeps.
Writable(t) ==
    CASE t = "users" -> {"username", "password", "displayName", "bio", "avatarUrl",
                         "isCreator"}
      [] t = "categories" -> {"name", "description", "iconName", "assetCount"}
      [] t = "assets" -> {"title", "description", "previewUrl", "price", "categoryId",
                          "creatorId", "tags", "featured", "thumbnails", "fileUrl",
                          "fileType", "fileSize", "s3ObjectKey"}
      [] t = "cartItems" -> {"userId", "assetId", "quantity"}
      [] t = "purchases" -> {"userId", "assetId", "amount", "paymentIntentId", "status"}
      [] t = "ratings" -> {"userId", "assetId", "rating", "comment"}

\* The kind of value a writable column holds, by the column's name.
TagOf(k) ==
    CASE k \in {"assetCount", "price", "categoryId", "creatorId", "rating", "fileSize",
                "userId", "assetId", "quantity", "amount"} -> "num"
      [] k \in {"isCreator", "featured"} -> "bool"
      [] k \in {"tags", "thumbnails"} -> "arr"
      [] k \in {"username", "password", "displayName", "bio", "avatarUrl", "name",
                "description", "iconName", "title", "previewUrl", "fileUrl", "fileType",
                "s3ObjectKey", "paymentIntentId", "status", "comment"} -> "str"

\* The writable columns of type integer (price and amount are real).
IntegerKeys == {"assetCount", "categoryId", "creatorId", "fileSize", "userId",
                "assetId", "quantity", "rating"}

\* The number is a 32-bit integer: -2^31 .. 2^31 - 1.
InInt32(v) == v.h = 0 \/ (v.h = -1 /\ v.n = 0)

\* The payload breaks a column declaration: a required column is missing, a
\* NOT NULL column is given null, a writable column is given a value of
\* another type, or an integer column a number beyond 32 bits.  Keys that are
\* no writable column of the table do not count: validation strips them.
SchemaViolation(t, p) ==
    \/ \E k \in Required(t) : k \notin DOMAIN p
    \/ \E k \in NotNullable(t) \cap DOMAIN p : p[k] = Null
    \/ \E k \in (DOMAIN p) \cap Writable(t) : p[k].t \notin {"null", TagOf(k)}
    \/ \E k \in (DOMAIN p) \cap Writable(t) \cap IntegerKeys :
          p[k].t = "num" /\ ~InInt32(p[k])

\* The foreign keys of a table and the table each points to.
ForeignKeys(t) ==
    CASE t = "assets" -> {<<"categoryId", "categories">>, <<"creatorId", "users">>}
      [] t \in {"cartItems", "purchases", "ratings"} ->
            {<<"userId", "users">>, <<"assetId", "assets">>}
      [] OTHER -> {}

\* The payload names an id no row of the referenced table has.
DanglingRef(t, p) ==
    \E fk \in ForeignKeys(t) :
        /\ fk[1] \in DOMAIN p
        /\ p[fk[1]].t = "num"
        /\ ~ \E r \in rows[fk[2]] : r.id = p[fk[1]]

UniqueKeys(t) ==
    CASE t = "users" -> {"username"}
      [] t = "categories" -> {"name"}
      [] OTHER -> {}

\* Another row already holds the payload's value of a unique column.
UniqueConflict(t, p) ==
    \E k \in UniqueKeys(t) \cap DOMAIN p :
        \E r \in rows[t] : r.id.n # last.id /\ r[k] = p[k]

Inserted == last.table # ""
Accepted == last.table # "" /\ last.result = "ok"
\* P holds of the row the last insert added.
LastRowHas(P(_)) == \E r \in rows[last.table] : r.id.n = last.id /\ P(r)

LinkTables == {"cartItems", "purchases", "ratings"}

(* ------------------------------- claims -------------------------------- *)
\* C1: no two rows of users have the same username; an insert whose username
\* equals that of an existing row is rejected.
C1_UsernameUnique ==
    /\ \A r1, r2 \in rows["users"] : r1.username = r2.username => r1 = r2
    /\ (last.table = "users" /\ UniqueConflict("users", last.payload))
          => last.result # "ok"

C1_Witness ==
    /\ last.table = "users"
    /\ last.result = "unique"
    /\ \E r \in rows["users"] : r.username = last.payload.username

\* C2: no two rows of categories have the same name; an insert whose name
\* equals that of an existing row is rejected.
C2_CategoryNameUnique ==
    /\ \A r1, r2 \in rows["categories"] : r1.name = r2.name => r1 = r2
    /\ (last.table = "categories" /\ UniqueConflict("categories", last.payload))
          => last.result # "ok"

C2_Witness ==
    /\ last.table = "categories"
    /\ last.result = "unique"
    /\ \E r \in rows["categories"] : r.name = last.payload.name

\* C3: every foreign-key column of every row is the id of a row of the table
\* it references; an insert naming an id that no row has is rejected.
C3_ForeignKeysResolve ==
    /\ \A t \in TableNames : \A r \in rows[t] : \A fk \in ForeignKeys(t) :
          \E q \in rows[fk[2]] : q.id = r[fk[1]]
    /\ (Inserted /\ DanglingRef(last.table, last.payload)) => last.result # "ok"

C3_Witness ==
    /\ last.table \in LinkTables
    /\ last.result = "fk"
    /\ rows["assets"] # {}
    /\ DanglingRef(last.table, last.payload)

\* C4 as stated: validation rejects every payload that contains a
\* server-generated field of its entity.
C4_RejectsServerFields ==
    (Inserted /\ (DOMAIN last.payload) \cap ServerFields(last.table) # {})
        => last.result = "invalid"

\* C4 as amended: a payload that contains server-generated fields and is valid
\* otherwise passes validation, and the row stored for it carries the store's
\* own value in every such field, never the payload's.
C4_StripsServerFields ==
    /\ (Inserted /\ ~SchemaViolation(last.table, last.payload))
          => last.result # "invalid"
    /\ Accepted =>
          LET StoreOwned(r) == \A k \in ServerFields(last.table) :
                                  r[k] = ServerValue(last.table, k)
          IN  LastRowHas(StoreOwned)

C4_Witness ==
    /\ last.table = "assets"
    /\ last.result = "ok"
    /\ {"id", "createdAt", "downloadCount", "rating"} \subseteq DOMAIN last.payload
    /\ last.payload.downloadCount = Num(5)
    /\ \E r \in rows["assets"] : r.id.n = last.id /\ r.downloadCount = Num(0)

C7_QuantityAtLeastOne ==
    \A r \in rows["cartItems"] : r.quantity.t = "num" /\ r.quantity.n >= 1

\* C7 as amended: every row of cart_items has a non-null integer quantity; a
\* CartItem inserted without a quantity gets quantity 1, and one inserted with
\* a quantity gets that quantity, also when it is 0 or negative.
C7_QuantityDefaultOnly ==
    /\ \A r \in rows["cartItems"] : r.quantity.t = "num"
    /\ (last.table = "cartItems" /\ last.result = "ok") =>
          \E r \in rows["cartItems"] :
              /\ r.id.n = last.id
              /\ r.quantity = IF "quantity" \in DOMAIN last.payload
                              THEN last.payload.quantity
                              ELSE Num(1)

C7_Witness ==
    /\ last.table = "cartItems"
    /\ last.result = "ok"
    /\ "quantity" \notin DOMAIN last.payload
    /\ \E r \in rows["cartItems"] : r.id.n = last.id /\ r.quantity = Num(1)
    /\ \E r \in rows["cartItems"] : r.quantity.n <= 0

\* The declared default of a defaulted client-writable column.
DeclaredDefault(t, k) ==
    CASE t = "users" /\ k = "isCreator" -> Bool(FALSE)
      [] t = "categories" /\ k = "assetCount" -> Num(0)
      [] t = "assets" /\ k = "featured" -> Bool(FALSE)
      [] t = "cartItems" /\ k = "quantity" -> Num(1)
      [] t = "purchases" /\ k = "status" -> Str("completed")

Defaulted(t) ==
    CASE t = "users" -> {"isCreator"}
      [] t = "categories" -> {"assetCount"}
      [] t = "assets" -> {"featured"}
      [] t = "cartItems" -> {"quantity"}
      [] t = "purchases" -> {"status"}
      [] OTHER -> {}

\* The row an accepted insert adds: a fresh id, the declared default in every
\* defaulted column the payload leaves out, 0 in the server's counters.
C8_RowAsDeclared ==
    Accepted =>
        \E r \in rows[last.table] :
            /\ r.id.n = last.id
            /\ \A q \in rows[last.table] \ {r} : q.id.n < r.id.n
            /\ \A k \in Defaulted(last.table) \ DOMAIN last.payload :
                  r[k] = DeclaredDefault(last.table, k)
            /\ last.table = "assets" => (r.downloadCount = Num(0) /\ r.rating = Num(0))
            /\ last.table = "purchases" => r.downloadCount = Num(0)

\* A step adds at most one row, to one table, and leaves every other row as it is.
C8_InsertOnly ==
    /\ \A t \in TableNames : rows[t] \subseteq rows'[t]
    /\ \A t \in TableNames : rows'[t] # rows[t] =>
          /\ last'.table = t
          /\ Cardinality(rows'[t] \ rows[t]) = 1

\* C8: every entity is created by an insert, the store fills the fields the
\* insert omits with the declared defaults and a fresh id, and no step
\* updates or deletes a row.
C8_InsertLifecycle == [](C8_RowAsDeclared) /\ [][C8_InsertOnly]_vars

C8_Witness ==
    /\ last.table = "purchases"
    /\ last.result = "ok"
    /\ "status" \notin DOMAIN last.payload
    /\ \E r \in rows["purchases"] :
          r.id.n = last.id /\ r.status = Str("completed") /\ r.downloadCount = Num(0)

C9_IdsUnique ==
    \A t \in TableNames : \A r1, r2 \in rows[t] : r1.id = r2.id => r1 = r2

C9_IdsKept ==
    \A t \in TableNames : \A r \in rows[t] :
        /\ r \in rows'[t]
        /\ Cardinality({q \in rows'[t] : q.id = r.id}) = 1

\* C9: no two rows of a table share an id, and a row keeps its id through
\* every later insert, accepted or rejected.
C9_IdsUniqueImmutable == [](C9_IdsUnique) /\ [][C9_IdsKept]_vars

C9_Witness ==
    /\ \E t \in TableNames : Cardinality(rows[t]) >= 2
    /\ last.result \in {"invalid", "unique", "fk"}

\* C10: a CartItem, Purchase or Rating whose userId and assetId equal those of
\* an existing row of its table is accepted (when valid otherwise) and adds a
\* row of its own.
C10_PairNotUnique ==
    (/\ last.table \in LinkTables
     /\ ~SchemaViolation(last.table, last.payload)
     /\ ~DanglingRef(last.table, last.payload)
     /\ \E q \in rows[last.table] :
           /\ q.id.n # last.id
           /\ q.userId = last.payload.userId
           /\ q.assetId = last.payload.assetId)
    => /\ last.result = "ok"
       /\ \E r \in rows[last.table] :
             /\ r.id.n = last.id
             /\ r.userId = last.payload.userId
             /\ r.assetId = last.payload.assetId

C10_Witness ==
    /\ last.table = "ratings"
    /\ last.result = "ok"
    /\ \E r1, r2 \in rows["ratings"] :
          r1 # r2 /\ r1.userId = r2.userId /\ r1.assetId = r2.assetId

====
